---------------------------- MODULE Spec2Model ----------------------------
(***************************************************************************)
(* Model of two parts of dissect.target:                                   *)
(*                                                                         *)
(*  - WindowsNotepadTabContent._process_tab_file                           *)
(*    (plugins/apps/texteditor/windowsnotepad.py): the decoder of a        *)
(*    Windows Notepad tab state file and the replay of its edit blocks.    *)
(*  - HbkFilesystem.__init__ / _get_node (filesystems/hbk.py): opening an  *)
(*    HBK archive with the keys of the keychain.                           *)
(*                                                                         *)
(* A file is a sequence of bytes (0..255).  A Python str and a Python list *)
(* of one-character strings are both sequences of UTF-16 code units; the   *)
(* tab files drawn here hold only code units outside the surrogate range,  *)
(* where one wchar is one character.                                       *)
(***************************************************************************)
EXTENDS Integers, Sequences, FiniteSets, TLC

VARIABLES
    fixture,                  \* the description the tab file was written from
    file,                     \* the bytes of the tab file (file.open("rb"))
    include_deleted_content,  \* the flag given to _process_tab_file
    frame,                    \* the locals of _process_tab_file and where it is
    keys,                     \* the keys the keychain returns to HbkFilesystem
    fs                        \* the HbkFilesystem instance under construction

vars == <<fixture, file, include_deleted_content, frame, keys, fs>>

---------------------------------------------------------------------------
(* Bytes and 32-bit words.                                                 *)

Byte == 0..255

RECURSIVE XorBits(_, _, _)
XorBits(a, b, n) ==
    IF n = 0 THEN 0
    ELSE ((a + b) % 2) + 2 * XorBits(a \div 2, b \div 2, n - 1)

\* a ^ b on bytes, tabulated once.
XorByte == [a \in Byte |-> [b \in Byte |-> XorBits(a, b, 8)]]

\* A 32-bit word is its four bytes, least significant first (TLC's integers
\* are narrower than 32 unsigned bits).
Xor32(a, b) ==
    << XorByte[a[1]][b[1]], XorByte[a[2]][b[2]], XorByte[a[3]][b[3]],
       XorByte[a[4]][b[4]] >>

\* The reflected CRC-32 polynomial of zlib, 0xEDB88320.
CrcPoly == <<32, 131, 184, 237>>

AllOnes32 == <<255, 255, 255, 255>>

\* w >> 1
Shr1(w) ==
    << w[1] \div 2 + (w[2] % 2) * 128,
       w[2] \div 2 + (w[3] % 2) * 128,
       w[3] \div 2 + (w[4] % 2) * 128,
       w[4] \div 2 >>

\* w >> 8
Shr8(w) == <<w[2], w[3], w[4], 0>>

RECURSIVE CrcShift(_, _)
CrcShift(c, n) ==
    IF n = 0 THEN c
    ELSE CrcShift(IF c[1] % 2 = 1 THEN Xor32(Shr1(c), CrcPoly) ELSE Shr1(c), n - 1)

\* zlib's crc_table.
CrcTable == [i \in Byte |-> CrcShift(<<i, 0, 0, 0>>, 8)]

\* One byte of zlib's loop: c = crc_table[(c ^ b) & 0xff] ^ (c >> 8)
CrcByte(c, b) == Xor32(CrcTable[XorByte[c[1]][b]], Shr8(c))

\* zlib's loop over data[lo..hi], from register c.  The range is halved and
\* the left half is computed before the right half is entered, which keeps
\* TLC's evaluation shallow.
RECURSIVE CrcUpdate(_, _, _, _)
CrcUpdate(c, data, lo, hi) ==
    IF lo > hi THEN c
    ELSE IF lo = hi THEN CrcByte(c, data[lo])
    ELSE LET mid == (lo + hi) \div 2
             left == CrcUpdate(c, data, lo, mid)
         IN IF Len(left) = 4 THEN CrcUpdate(left, data, mid + 1, hi) ELSE left

\* zlib.crc32(data)
zlib_crc32(data) == Xor32(CrcUpdate(AllOnes32, data, 1, Len(data)), AllOnes32)

\* int.to_bytes(length=4, byteorder="big")
ToBytesBig(w) == <<w[4], w[3], w[2], w[1]>>

\* _calc_crc32(data)
calc_crc32(data) == ToBytesBig(zlib_crc32(data))

---------------------------------------------------------------------------
(* dissect.cstruct: reading the types of c_def from a stream and dumping   *)
(* them back.  A read returns [ok, val, pos]: ok is FALSE when the stream  *)
(* ends before the value is complete (cstruct raises EOFError), pos is the *)
(* stream position after the read.                                         *)

Drop(s, n) == SubSeq(s, n + 1, Len(s))
Take(s, n) == SubSeq(s, 1, n)

Eof(fh) == [ok |-> FALSE, val |-> <<>>, pos |-> Len(fh)]

\* char[n], uint8: fh.read(n), EOFError on a short read.
ReadBytes(fh, pos, n) ==
    IF pos + n <= Len(fh)
    THEN [ok |-> TRUE, val |-> SubSeq(fh, pos + 1, pos + n), pos |-> pos + n]
    ELSE Eof(fh)

\* uleb128: 7 payload bits per byte, least significant group first, the
\* high bit of a byte says another byte follows.
RECURSIVE ReadUleb128From(_, _, _, _)
ReadUleb128From(fh, pos, result, weight) ==
    IF pos >= Len(fh) THEN [ok |-> FALSE, val |-> 0, pos |-> Len(fh)]
    ELSE LET b == fh[pos + 1]
             r == result + (b % 128) * weight
         IN IF b \div 128 = 0
            THEN [ok |-> TRUE, val |-> r, pos |-> pos + 1]
            ELSE ReadUleb128From(fh, pos + 1, r, weight * 128)

ReadUleb128(fh, pos) == ReadUleb128From(fh, pos, 0, 1)

RECURSIVE DumpUleb128(_)
DumpUleb128(n) ==
    IF n \div 128 = 0 THEN <<n % 128>>
    ELSE <<128 + (n % 128)>> \o DumpUleb128(n \div 128)

\* wchar[n]: 2n bytes, each character a little-endian 16-bit code unit.
DecodeUtf16le(bytes) ==
    [i \in 1..(Len(bytes) \div 2) |-> bytes[2 * i - 1] + 256 * bytes[2 * i]]

EncodeUtf16le(str) ==
    [i \in 1..(2 * Len(str)) |->
        IF i % 2 = 1 THEN str[(i + 1) \div 2] % 256 ELSE str[i \div 2] \div 256]

ReadWchar(fh, pos, n) ==
    LET r == ReadBytes(fh, pos, 2 * n)
    IN IF r.ok THEN [r EXCEPT !.val = DecodeUtf16le(r.val)] ELSE r

\* A local that is not bound yet.
Unbound == [unbound |-> TRUE]

Fail(fh) == [ok |-> FALSE, val |-> Unbound, pos |-> Len(fh)]

\* struct header
ReadHeader(fh, pos) ==
    LET magic == ReadBytes(fh, pos, 2)
        unk0 == ReadBytes(fh, magic.pos, 1)
        fileState == ReadBytes(fh, unk0.pos, 1)
    IN IF magic.ok /\ unk0.ok /\ fileState.ok
       THEN [ok |-> TRUE, pos |-> fileState.pos,
             val |-> [magic |-> magic.val, unk0 |-> unk0.val[1],
                      fileState |-> fileState.val[1]]]
       ELSE Fail(fh)

DumpHeader(h) == h.magic \o <<h.unk0, h.fileState>>

\* struct header_saved_tab
ReadSavedTab(fh, pos) ==
    LET filePathLength == ReadUleb128(fh, pos)
        filePath == ReadWchar(fh, filePathLength.pos, filePathLength.val)
        fileSize == ReadUleb128(fh, filePath.pos)
        encoding == ReadUleb128(fh, fileSize.pos)
        carriageReturnType == ReadUleb128(fh, encoding.pos)
        timestamp == ReadUleb128(fh, carriageReturnType.pos)
        sha256 == ReadBytes(fh, timestamp.pos, 32)
        unk == ReadBytes(fh, sha256.pos, 6)
    IN IF /\ filePathLength.ok /\ filePath.ok /\ fileSize.ok /\ encoding.ok
          /\ carriageReturnType.ok /\ timestamp.ok /\ sha256.ok /\ unk.ok
       THEN [ok |-> TRUE, pos |-> unk.pos,
             val |-> [type |-> "header_saved_tab",
                      filePathLength |-> filePathLength.val,
                      filePath |-> filePath.val,
                      fileSize |-> fileSize.val,
                      encoding |-> encoding.val,
                      carriageReturnType |-> carriageReturnType.val,
                      timestamp |-> timestamp.val,
                      sha256 |-> sha256.val,
                      unk |-> unk.val]]
       ELSE Fail(fh)

\* struct header_unsaved_tab
ReadUnsavedTab(fh, pos) ==
    LET unk0 == ReadBytes(fh, pos, 1)
        fileSize == ReadUleb128(fh, unk0.pos)
        fileSizeDuplicate == ReadUleb128(fh, fileSize.pos)
        unk1 == ReadBytes(fh, fileSizeDuplicate.pos, 1)
        unk2 == ReadBytes(fh, unk1.pos, 1)
    IN IF unk0.ok /\ fileSize.ok /\ fileSizeDuplicate.ok /\ unk1.ok /\ unk2.ok
       THEN [ok |-> TRUE, pos |-> unk2.pos,
             val |-> [type |-> "header_unsaved_tab",
                      unk0 |-> unk0.val[1],
                      fileSize |-> fileSize.val,
                      fileSizeDuplicate |-> fileSizeDuplicate.val,
                      unk1 |-> unk1.val[1],
                      unk2 |-> unk2.val[1]]]
       ELSE Fail(fh)

\* tab.dumps(), of either tab structure
DumpTab(t) ==
    IF t.type = "header_saved_tab"
    THEN DumpUleb128(t.filePathLength) \o EncodeUtf16le(t.filePath)
         \o DumpUleb128(t.fileSize) \o DumpUleb128(t.encoding)
         \o DumpUleb128(t.carriageReturnType) \o DumpUleb128(t.timestamp)
         \o t.sha256 \o t.unk
    ELSE <<t.unk0>> \o DumpUleb128(t.fileSize) \o DumpUleb128(t.fileSizeDuplicate)
         \o <<t.unk1, t.unk2>>

\* struct single_data_block
ReadSingleDataBlock(fh, pos) ==
    LET offset == ReadUleb128(fh, pos)
        nDeleted == ReadUleb128(fh, offset.pos)
        nAdded == ReadUleb128(fh, nDeleted.pos)
        data == ReadWchar(fh, nAdded.pos, nAdded.val)
        unk == ReadBytes(fh, data.pos, 1)
        crc32 == ReadBytes(fh, unk.pos, 4)
    IN IF offset.ok /\ nDeleted.ok /\ nAdded.ok /\ data.ok /\ unk.ok /\ crc32.ok
       THEN [ok |-> TRUE, pos |-> crc32.pos,
             val |-> [offset |-> offset.val, nDeleted |-> nDeleted.val,
                      nAdded |-> nAdded.val, data |-> data.val,
                      unk |-> unk.val, crc32 |-> crc32.val]]
       ELSE Fail(fh)

DumpSingleDataBlock(b) ==
    DumpUleb128(b.offset) \o DumpUleb128(b.nDeleted) \o DumpUleb128(b.nAdded)
    \o EncodeUtf16le(b.data) \o b.unk \o b.crc32

\* struct multi_data_extra_header
ReadMultiDataExtraHeader(fh, pos) ==
    LET unk == ReadBytes(fh, pos, 4)
        crc32 == ReadBytes(fh, unk.pos, 4)
    IN IF unk.ok /\ crc32.ok
       THEN [ok |-> TRUE, pos |-> crc32.pos,
             val |-> [unk |-> unk.val, crc32 |-> crc32.val]]
       ELSE Fail(fh)

\* struct multi_data_block
ReadMultiDataBlock(fh, pos) ==
    LET offset == ReadUleb128(fh, pos)
        nDeleted == ReadUleb128(fh, offset.pos)
        nAdded == ReadUleb128(fh, nDeleted.pos)
        data == ReadWchar(fh, nAdded.pos, nAdded.val)
        crc32 == ReadBytes(fh, data.pos, 4)
    IN IF offset.ok /\ nDeleted.ok /\ nAdded.ok /\ data.ok /\ crc32.ok
       THEN [ok |-> TRUE, pos |-> crc32.pos,
             val |-> [offset |-> offset.val, nDeleted |-> nDeleted.val,
                      nAdded |-> nAdded.val, data |-> data.val,
                      crc32 |-> crc32.val]]
       ELSE Fail(fh)

DumpMultiDataBlock(b) ==
    DumpUleb128(b.offset) \o DumpUleb128(b.nDeleted) \o DumpUleb128(b.nAdded)
    \o EncodeUtf16le(b.data) \o b.crc32

---------------------------------------------------------------------------
(* Python lists and strings.                                               *)

Min(a, b) == IF a < b THEN a ELSE b

\* list.insert(i, x): an index past the end appends.
ListInsert(list, i, x) ==
    LET k == Min(i, Len(list))
    IN Take(list, k) \o <<x>> \o Drop(list, k)

\* list[a:b], for a, b >= 0: both ends are clamped to the list.
Slice(list, a, b) == SubSeq(list, Min(a, Len(list)) + 1, Min(b, Len(list)))

\* list[a:]
SliceFrom(list, a) == Slice(list, a, Len(list))

\* " --- DELETED-CONTENT: "
DeletedContentDelimiter ==
    << 32, 45, 45, 45, 32, 68, 69, 76, 69, 84, 69, 68, 45, 67, 79, 78, 84, 69,
       78, 84, 58, 32 >>

---------------------------------------------------------------------------
(* WindowsNotepadTabContent._process_tab_file, one step per statement      *)
(* group.  Each step is a function of the open file, the flag and the      *)
(* frame, so that a whole call is also available as a function (Process).  *)

InitialFrame ==
    [ pc |-> "header", pos |-> 0, header |-> Unbound, tab |-> Unbound,
      mdeh |-> Unbound, data_entry |-> Unbound, text |-> <<>>,
      deleted_content |-> <<>>, log |-> <<>>, exc |-> "None",
      result |-> Unbound ]

\* An exception leaves the function: no record is returned.
Raise(fr, exc, pos) == [fr EXCEPT !.pc = "raised", !.exc = exc, !.pos = pos]

\* logging.warning(msg, file.name, expected.hex(), actual.hex())
Warning(msg, expected, actual) ==
    [msg |-> msg, expected |-> expected, actual |-> actual]

\* header = c_windowstab.header(fh)
ParseHeader(fh, fr) ==
    LET r == ReadHeader(fh, fr.pos)
    IN IF r.ok
       THEN [fr EXCEPT !.pc = "tab", !.pos = r.pos, !.header = r.val]
       ELSE Raise(fr, "EOFError", r.pos)

\* Mutant: the layout derived from the saved/unsaved byte.
SingleBlockLayoutByFileState(header, tab) == header.fileState = 1

\* if tab.fileSize != 0
SingleBlockLayout(header, tab) == tab.fileSize # 0

\* tab = header_saved_tab(fh) if header.fileState == 0x01 else header_unsaved_tab(fh)
ParseTab(fh, fr) ==
    LET r == IF fr.header.fileState = 1
             THEN ReadSavedTab(fh, fr.pos)
             ELSE ReadUnsavedTab(fh, fr.pos)
    IN IF r.ok
       THEN [fr EXCEPT !.pc = IF SingleBlockLayout(fr.header, r.val)
                              THEN "single" ELSE "extra_header",
                       !.pos = r.pos, !.tab = r.val]
       ELSE Raise(fr, "EOFError", r.pos)

\* The single-block branch: one block, its checksum, text = data_entry.data
ParseSingleBlock(fh, fr) ==
    LET r == ReadSingleDataBlock(fh, fr.pos)
        dumped == DumpSingleDataBlock(r.val)
        actual_crc32 == calc_crc32(Drop(DumpHeader(fr.header), 3) \o DumpTab(fr.tab)
                                   \o Take(dumped, Len(dumped) - 4))
    IN IF r.ok
       THEN [fr EXCEPT !.pc = "return", !.pos = r.pos, !.data_entry = r.val,
                       !.log = IF r.val.crc32 # actual_crc32
                               THEN Append(@, Warning("CRC32 mismatch in single-block file",
                                                      r.val.crc32, actual_crc32))
                               ELSE @,
                       !.text = r.val.data]
       ELSE Raise(fr, "EOFError", r.pos)

\* The multi-block branch up to the loop: the extra header, its checksum,
\* text = [], deleted_content = ""
ParseExtraHeader(fh, fr) ==
    LET r == ReadMultiDataExtraHeader(fh, fr.pos)
        actual_header_crc32 ==
            calc_crc32(Drop(DumpHeader(fr.header), 3) \o DumpTab(fr.tab) \o r.val.unk)
    IN IF r.ok
       THEN [fr EXCEPT !.pc = "loop", !.pos = r.pos, !.mdeh = r.val,
                       !.log = IF r.val.crc32 # actual_header_crc32
                               THEN Append(@, Warning("CRC32 mismatch in header of multi-block file",
                                                      r.val.crc32, actual_header_crc32))
                               ELSE @,
                       !.text = <<>>, !.deleted_content = <<>>]
       ELSE Raise(fr, "EOFError", r.pos)

\* The checksum of a block with nAdded > 0.
BlockChecksum(data_entry) == calc_crc32(DumpMultiDataBlock(data_entry))

\* The warnings one decoded block adds to the log.
BlockWarnings(data_entry) ==
    IF data_entry.nAdded > 0 /\ data_entry.crc32 # BlockChecksum(data_entry)
    THEN << Warning("CRC32 mismatch in multi-block file",
                    data_entry.crc32, BlockChecksum(data_entry)) >>
    ELSE <<>>

\* for idx in range(nAdded): text.insert(offset + idx, data[idx])
RECURSIVE InsertFrom(_, _, _)
InsertFrom(text, data_entry, idx) ==
    IF idx >= data_entry.nAdded THEN text
    ELSE InsertFrom(ListInsert(text, data_entry.offset + idx, data_entry.data[idx + 1]),
                    data_entry, idx + 1)

\* Mutant: every character inserted at offset itself.
RECURSIVE InsertAtOffsetFrom(_, _, _)
InsertAtOffsetFrom(text, data_entry, idx) ==
    IF idx >= data_entry.nAdded THEN text
    ELSE InsertAtOffsetFrom(ListInsert(text, data_entry.offset, data_entry.data[idx + 1]),
                            data_entry, idx + 1)

InsertDataAtOffset(text, data_entry) == InsertAtOffsetFrom(text, data_entry, 0)

InsertData(text, data_entry) == InsertFrom(text, data_entry, 0)

\* "".join(text[offset : offset + nDeleted]), appended when the flag is set
DeletedSlice(text, data_entry) ==
    Slice(text, data_entry.offset, data_entry.offset + data_entry.nDeleted)

\* Mutant: the tail taken from nDeleted instead of offset + nDeleted.
RemoveSliceFromCount(text, data_entry) ==
    Slice(text, 0, data_entry.offset) \o SliceFrom(text, data_entry.nDeleted)

\* Mutant: a range that leaves the text is not removed at all.
RemoveSliceInBoundsOnly(text, data_entry) ==
    IF data_entry.offset + data_entry.nDeleted > Len(text) THEN text
    ELSE Slice(text, 0, data_entry.offset)
         \o SliceFrom(text, data_entry.offset + data_entry.nDeleted)

\* text[:offset] + text[offset + nDeleted :]
RemoveSlice(text, data_entry) ==
    Slice(text, 0, data_entry.offset)
    \o SliceFrom(text, data_entry.offset + data_entry.nDeleted)

\* The body of the loop for a decoded block.
ApplyBlock(include, fr, data_entry) ==
    IF data_entry.nAdded > 0
    THEN [fr EXCEPT !.log = @ \o BlockWarnings(data_entry),
                    !.text = InsertData(@, data_entry)]
    ELSE IF data_entry.nDeleted > 0
    THEN [fr EXCEPT !.deleted_content =
                        IF include THEN @ \o DeletedSlice(fr.text, data_entry) ELSE @,
                    !.text = RemoveSlice(@, data_entry)]
    ELSE fr

\* One iteration of `while True`: EOFError anywhere in the read of a block
\* leaves the loop, a decoded block is applied.
ParseMultiBlock(fh, include, fr) ==
    LET r == ReadMultiDataBlock(fh, fr.pos)
    IN IF r.ok
       THEN ApplyBlock(include, [fr EXCEPT !.pos = r.pos, !.data_entry = r.val], r.val)
       ELSE [fr EXCEPT !.pc = "join", !.pos = r.pos]

\* Mutant: the delimiter and the deleted content appended whatever the flag.
JoinedTextAlways(include, text, deleted_content) ==
    text \o DeletedContentDelimiter \o deleted_content

\* text = "".join(text), and the deleted content after its delimiter
JoinedText(include, text, deleted_content) ==
    IF include THEN text \o DeletedContentDelimiter \o deleted_content ELSE text

JoinText(include, fr) ==
    [fr EXCEPT !.pc = "return",
               !.text = JoinedText(include, fr.text, fr.deleted_content)]

\* return WindowsNotepadTabContentRecord(content=text, path=file)
ReturnRecord(fh, fr) ==
    [fr EXCEPT !.pc = "done", !.result = [content |-> fr.text, path |-> fh]]

Finished(fr) == fr.pc \in {"done", "raised"}

\* The statement the frame is at.
Step(fh, include, fr) ==
    CASE fr.pc = "header" -> ParseHeader(fh, fr)
      [] fr.pc = "tab" -> ParseTab(fh, fr)
      [] fr.pc = "single" -> ParseSingleBlock(fh, fr)
      [] fr.pc = "extra_header" -> ParseExtraHeader(fh, fr)
      [] fr.pc = "loop" -> ParseMultiBlock(fh, include, fr)
      [] fr.pc = "join" -> JoinText(include, fr)
      [] fr.pc = "return" -> ReturnRecord(fh, fr)
      [] OTHER -> fr

\* A whole call of _process_tab_file(file, include_deleted_content).
RECURSIVE RunFrom(_, _, _)
RunFrom(fh, include, fr) ==
    IF Finished(fr) THEN fr ELSE RunFrom(fh, include, Step(fh, include, fr))

Process(fh, include) == RunFrom(fh, include, InitialFrame)

---------------------------------------------------------------------------
(* The tab files the decoder is run on.  A fixture describes a file as     *)
(* Notepad writes it (c_def), with every checksum over the bytes the       *)
(* format defines for it, then optionally with one checksum corrupted and  *)
(* the last bytes cut off.                                                 *)

MaxBlocks == 3
MaxCut == 2

Zeros(n) == [i \in 1..n |-> 0]

InsertBlock(offset, data) ==
    [offset |-> offset, nDeleted |-> 0, nAdded |-> Len(data), data |-> data]

DeleteBlock(offset, nDeleted) ==
    [offset |-> offset, nDeleted |-> nDeleted, nAdded |-> 0, data |-> <<>>]

\* The edit blocks of the drawn files: inserts inside and past the end of
\* the text, deletes inside and past it, an empty block, and a block
\* with both counts set.
BlockShapes ==
    { InsertBlock(0, <<97, 98>>), InsertBlock(1, <<99>>), InsertBlock(7, <<97>>),
      DeleteBlock(0, 1), DeleteBlock(1, 2), DeleteBlock(0, 0),
      [offset |-> 0, nDeleted |-> 1, nAdded |-> 1, data |-> <<98>>] }

SingleShapes ==
    { InsertBlock(0, <<97, 98, 99>>),
      [offset |-> 2, nDeleted |-> 1, nAdded |-> 2, data |-> <<98, 97>>] }

\* "NP"
Magic == <<78, 80>>

\* "hello", " world"
Hello == <<104, 101, 108, 108, 111>>
World == <<32, 119, 111, 114, 108, 100>>

FixtureHeader(d) == [magic |-> d.magic, unk0 |-> 0, fileState |-> d.fileState]

FixtureTab(d) ==
    IF d.fileState = 1
    THEN [ type |-> "header_saved_tab", filePathLength |-> 1, filePath |-> <<97>>,
           fileSize |-> d.fileSize, encoding |-> 5, carriageReturnType |-> 1,
           timestamp |-> 300, sha256 |-> Zeros(32), unk |-> Zeros(6) ]
    ELSE [ type |-> "header_unsaved_tab", unk0 |-> 0, fileSize |-> d.fileSize,
           fileSizeDuplicate |-> d.fileSize, unk1 |-> 1, unk2 |-> 0 ]

\* A stored checksum that differs from the right one in one bit.
Corrupted(crc) == [crc EXCEPT ![4] = XorByte[@][1]]

Stored(crc, corrupt) == IF corrupt THEN Corrupted(crc) ELSE crc

\* The bytes the header-level checksum covers: the header after its first
\* three bytes, then the tab metadata.
FixturePrefix(d) == Drop(DumpHeader(FixtureHeader(d)), 3) \o DumpTab(FixtureTab(d))

\* The bytes of a block before its checksum.
BlockBody(b) ==
    DumpUleb128(b.offset) \o DumpUleb128(b.nDeleted) \o DumpUleb128(b.nAdded)
    \o EncodeUtf16le(b.data)

\* The right checksum of block k of the fixture, and the one stored.
RightBlockChecksum(b) == calc_crc32(BlockBody(b))

FixtureBlockBytes(d, k) ==
    BlockBody(d.blocks[k]) \o Stored(RightBlockChecksum(d.blocks[k]), d.corrupt = k + 1)

RECURSIVE FixtureBlocksBytes(_, _)
FixtureBlocksBytes(d, k) ==
    IF k = 0 THEN <<>> ELSE FixtureBlocksBytes(d, k - 1) \o FixtureBlockBytes(d, k)

RightSingleChecksum(d) == calc_crc32(FixturePrefix(d) \o BlockBody(d.single) \o <<0>>)

RightExtraHeaderChecksum(d) == calc_crc32(FixturePrefix(d) \o Zeros(4))

FixtureBody(d) ==
    IF d.fileSize # 0
    THEN BlockBody(d.single) \o <<0>> \o Stored(RightSingleChecksum(d), d.corrupt = 1)
    ELSE Zeros(4) \o Stored(RightExtraHeaderChecksum(d), d.corrupt = 1)
         \o FixtureBlocksBytes(d, Len(d.blocks))

\* The whole file, before anything is cut off.
FixtureBytes(d) == DumpHeader(FixtureHeader(d)) \o DumpTab(FixtureTab(d)) \o FixtureBody(d)

\* The file on disk.
BuildFile(d) == Take(FixtureBytes(d), Len(FixtureBytes(d)) - d.cut)

\* Files of every header and metadata shape, cut at every length.
HeaderFixtures ==
    UNION { { [u EXCEPT !.cut = c] : c \in 0..Len(FixtureBytes(u)) } :
            u \in [ magic : {Magic, <<88, 80>>}, fileState : {0, 1, 2},
                    fileSize : {0, 3, 200}, single : SingleShapes,
                    blocks : { <<InsertBlock(0, <<97, 98>>), DeleteBlock(0, 1)>> },
                    corrupt : {0, 1}, cut : {0} ] }

\* Unsaved multi-block files of every sequence of up to MaxBlocks blocks,
\* with at most one checksum corrupted and up to MaxCut bytes cut off.
BlockSequences == UNION { [1..n -> BlockShapes] : n \in 0..MaxBlocks }

MultiBlockFixtures ==
    UNION { [ magic : {Magic}, fileState : {0}, fileSize : {0},
              single : {InsertBlock(0, <<>>)}, blocks : {bs},
              corrupt : 0..(Len(bs) + 1), cut : 0..MaxCut ] :
            bs \in BlockSequences }

\* "hello" at 0, " world" at 5, then 6 characters deleted at 5.
ExampleFixtures ==
    [ magic : {Magic}, fileState : {0, 1}, fileSize : {0},
      single : {InsertBlock(0, <<>>)},
      blocks : { <<InsertBlock(0, Hello), InsertBlock(5, World)>>,
                 <<InsertBlock(0, Hello), InsertBlock(5, World), DeleteBlock(5, 6)>>,
                 <<InsertBlock(0, World), InsertBlock(0, Hello), DeleteBlock(2, 3),
                   DeleteBlock(1, 2)>> },
      corrupt : {0}, cut : {0} ]

Fixtures == HeaderFixtures \cup MultiBlockFixtures \cup ExampleFixtures

---------------------------------------------------------------------------
(* The decoder as a state machine.                                         *)

\* No HbkFilesystem is under construction.
NoFilesystem ==
    [ pc |-> "idle", i |-> 1, key |-> 0, hbk |-> [set |-> FALSE, key |-> 0],
      exc |-> "None", log |-> <<>> ]

Init ==
    /\ fixture \in Fixtures
    /\ file = BuildFile(fixture)
    /\ include_deleted_content \in BOOLEAN
    /\ frame = InitialFrame
    /\ keys = <<>>
    /\ fs = NoFilesystem

Advance(next) ==
    /\ frame' = next
    /\ UNCHANGED <<fixture, file, include_deleted_content, keys, fs>>

Header == frame.pc = "header" /\ Advance(ParseHeader(file, frame))

Tab == frame.pc = "tab" /\ Advance(ParseTab(file, frame))

SingleBlock == frame.pc = "single" /\ Advance(ParseSingleBlock(file, frame))

ExtraHeader == frame.pc = "extra_header" /\ Advance(ParseExtraHeader(file, frame))

MultiBlock ==
    frame.pc = "loop" /\ Advance(ParseMultiBlock(file, include_deleted_content, frame))

Join == frame.pc = "join" /\ Advance(JoinText(include_deleted_content, frame))

Return == frame.pc = "return" /\ Advance(ReturnRecord(file, frame))

Next == Header \/ Tab \/ SingleBlock \/ ExtraHeader \/ MultiBlock \/ Join \/ Return

Spec == Init /\ [][Next]_vars

---------------------------------------------------------------------------
(* HbkLoader.__init__, HbkFilesystem.__init__ and HbkFilesystem._get_node. *)
(* A key of the keychain is its type and what the world answers for it:    *)
(* whether a FILE key's file can be read, and whether hbk.HBK opens the    *)
(* archive with it, rejects it (hbk.InvalidKeyError) or fails otherwise.   *)

MaxKeys == 2

OpenOutcomes == {"ok", "InvalidKeyError", "Error"}

Keys ==
    [key_type : {"PASSPHRASE", "RAW"}, read : {"ok"}, open : OpenOutcomes]
    \cup [key_type : {"FILE"}, read : {"ok"}, open : OpenOutcomes]
    \cup [key_type : {"FILE"}, read : {"FileNotFoundError", "Exception"}, open : {"ok"}]
    \cup [key_type : {"RECOVERY_KEY"}, read : {"ok"}, open : {"ok"}]

KeyLists == UNION { [1..n -> Keys] : n \in 0..MaxKeys }

\* An instance before __init__ ran: no attribute hbk yet.
NewFilesystem == [NoFilesystem EXCEPT !.pc = "loader"]

InitHbk ==
    /\ keys \in KeyLists
    /\ fs = NewFilesystem
    /\ fixture = CHOOSE d \in ExampleFixtures : TRUE
    /\ file = <<>>
    /\ include_deleted_content = FALSE
    /\ frame = InitialFrame

Construct(next) ==
    /\ fs' = next
    /\ UNCHANGED <<fixture, file, include_deleted_content, frame, keys>>

\* The index of the first PASSPHRASE key, 0 (None) when there is none.
FirstPassphrase(ks) ==
    IF \E i \in 1..Len(ks) : ks[i].key_type = "PASSPHRASE"
    THEN CHOOSE i \in 1..Len(ks) :
            /\ ks[i].key_type = "PASSPHRASE"
            /\ \A j \in 1..(i - 1) : ks[j].key_type # "PASSPHRASE"
    ELSE 0

\* HbkLoader.__init__ up to the call HbkFilesystem(path.open("rb"), key=self.key)
LoaderInit ==
    /\ fs.pc = "loader"
    /\ Construct([fs EXCEPT !.pc = "init", !.key = FirstPassphrase(keys)])

\* HbkFilesystem.__init__ up to the loop: without keys the archive is
\* opened without one, which succeeds or raises.
FilesystemInit ==
    /\ fs.pc = "init"
    /\ IF keys = <<>>
       THEN \E outcome \in {"ok", "Error"} :
                Construct(IF outcome = "ok"
                          THEN [fs EXCEPT !.pc = "done", !.hbk = [set |-> TRUE, key |-> 0]]
                          ELSE [fs EXCEPT !.pc = "raised", !.exc = outcome])
       ELSE Construct([fs EXCEPT !.pc = "keys", !.i = 1])

\* The body of `for key in keys` for one key.
TryKeyResult(f, key) ==
    IF key.key_type \notin {"PASSPHRASE", "FILE", "RAW"}
    THEN f
    ELSE IF key.key_type = "FILE" /\ key.read # "ok"
    THEN [f EXCEPT !.log = Append(@, "debug")]
    ELSE IF key.open = "ok"
    THEN [f EXCEPT !.hbk = [set |-> TRUE, key |-> f.i]]
    ELSE IF key.open = "InvalidKeyError"
    THEN [f EXCEPT !.log = Append(@, "warning")]
    ELSE [f EXCEPT !.pc = "raised", !.exc = key.open]

TryKey ==
    /\ fs.pc = "keys"
    /\ fs.i <= Len(keys)
    /\ Construct([TryKeyResult(fs, keys[fs.i]) EXCEPT !.i = @ + 1])

\* The loop is exhausted: __init__ returns.
FilesystemInitReturn ==
    /\ fs.pc = "keys"
    /\ fs.i > Len(keys)
    /\ Construct([fs EXCEPT !.pc = "done"])

\* get(path) -> _get_node(path): self.hbk.get(path, node), whose errors are
\* translated; without the attribute hbk the lookup raises AttributeError.
GetNode ==
    /\ fs.pc = "done"
    /\ IF fs.hbk.set
       THEN \E outcome \in {"None", "FileNotFoundError", "IsADirectoryError",
                            "NotADirectoryError", "FilesystemError"} :
                Construct([fs EXCEPT !.pc = "got", !.exc = outcome])
       ELSE Construct([fs EXCEPT !.pc = "got", !.exc = "AttributeError"])

NextHbk == LoaderInit \/ FilesystemInit \/ TryKey \/ FilesystemInitReturn \/ GetNode

SpecHbk == InitHbk /\ [][NextHbk]_vars

---------------------------------------------------------------------------
(* What the fixture says about the file on disk.                           *)

Bound(x) == "unbound" \notin DOMAIN x

\* The offset of the first edit block of a multi-block file.
BlocksStart(d) == Len(DumpHeader(FixtureHeader(d))) + Len(DumpTab(FixtureTab(d))) + 8

\* The offset just after block k: each block is its body and 4 checksum bytes.
RECURSIVE BlockEnd(_, _)
BlockEnd(d, k) ==
    IF k = 0 THEN BlocksStart(d)
    ELSE BlockEnd(d, k - 1) + Len(BlockBody(d.blocks[k])) + 4

MultiBlockFile(d) == d.fileSize = 0

\* The file ends inside an edit block: at least one byte of the block is
\* there, and not all of them.
EndsInsideBlock(d) ==
    /\ MultiBlockFile(d)
    /\ \E k \in 1..Len(d.blocks) :
          BlockEnd(d, k - 1) < Len(file) /\ Len(file) < BlockEnd(d, k)

\* The signature and the fileState byte are the ones the format defines.
GoodHeader(d) == d.magic = Magic /\ d.fileState \in {0, 1}

\* The whole file is there and its header is good.
WellStructured(d) == GoodHeader(d) /\ d.cut = 0

\* A block was decoded and applied in this step.
BlockStep == frame.pc = "loop" /\ frame'.pc = "loop"

\* The bytes of a decoded block before its checksum field.
EntryBody(e) == Take(DumpMultiDataBlock(e), Len(DumpMultiDataBlock(e)) - 4)

---------------------------------------------------------------------------
(* Claims.                                                                 *)

\* C1: a multi-block file that ends inside an edit block (at least one byte
\* of the record is there, not all) is a fatal error: the loop is left
\* normally, and a record returned, only when the stream ends exactly where
\* a block read starts.
C1_TruncatedBlockIsFatal ==
    EndsInsideBlock(fixture) => frame.pc \notin {"join", "return", "done"}

\* C2: a file whose first two bytes are not the signature, or whose
\* fileState byte is neither 0 nor 1, yields no record.
C2_BadHeaderRejected ==
    (Len(file) >= 4 /\ (Take(file, 2) # Magic \/ file[4] \notin {0, 1}))
        => frame.pc # "done"

\* C3: every decoded edit block, insert or delete, adds a warning if and
\* only if its stored checksum differs from the CRC32 of its own bytes
\* without the trailing checksum field.
C3_EveryBlockChecksummed ==
    [][ BlockStep =>
            ( (frame'.log # frame.log)
              <=> (frame'.data_entry.crc32 # calc_crc32(EntryBody(frame'.data_entry))) )
      ]_vars

\* The stored value of the checksum the fixture corrupts.
CorruptedChecksum(d) ==
    IF d.corrupt = 1
    THEN Corrupted(IF d.fileSize # 0 THEN RightSingleChecksum(d)
                   ELSE RightExtraHeaderChecksum(d))
    ELSE Corrupted(RightBlockChecksum(d.blocks[d.corrupt - 1]))

\* C4: a well-structured file and the same file with its checksum fields
\* set right both decode to a record, with the same content, and the decode
\* of the file with the wrong checksum logs a warning for it.
C4_ChecksumNeverChangesResult ==
    (WellStructured(fixture) /\ Finished(frame)) =>
        LET twin == Process(BuildFile([fixture EXCEPT !.corrupt = 0]),
                            include_deleted_content)
        IN /\ frame.pc = "done"
           /\ twin.pc = "done"
           /\ frame.result.content = twin.result.content
           /\ fixture.corrupt # 0 =>
                 \E i \in 1..Len(frame.log) :
                    frame.log[i].expected = CorruptedChecksum(fixture)

\* C5 (what the claim is about): an unsaved tab (fileState 0) in the
\* single-block layout whose block has an offset and a delete count.
C5_Witness ==
    /\ frame.pc = "done"
    /\ fixture.fileState = 0
    /\ fixture.fileSize # 0
    /\ frame.data_entry.offset # 0
    /\ frame.data_entry.nDeleted # 0

\* C5: for fileState 0 and 1 alike the byte only selects the metadata
\* structure; fileSize # 0 decodes one single block (no extra header) and
\* returns its data verbatim, fileSize = 0 decodes the extra header and the
\* blocks after it.
C5_LayoutByFileSize ==
    (frame.pc = "done" /\ fixture.fileState \in {0, 1}) =>
        /\ frame.tab.type = IF fixture.fileState = 1 THEN "header_saved_tab"
                            ELSE "header_unsaved_tab"
        /\ frame.tab.fileSize = fixture.fileSize
        /\ fixture.fileSize # 0 =>
              /\ ~Bound(frame.mdeh)
              /\ frame.data_entry.offset = fixture.single.offset
              /\ frame.data_entry.nDeleted = fixture.single.nDeleted
              /\ frame.result.content = fixture.single.data
              /\ frame.pos = Len(FixtureBytes(fixture))
        /\ fixture.fileSize = 0 =>
              /\ Bound(frame.mdeh)
              /\ frame.mdeh.unk = Zeros(4)
              /\ \E k \in 0..Len(fixture.blocks) :
                    /\ BlockEnd(fixture, k) <= Len(file)
                    /\ k < Len(fixture.blocks) => Len(file) < BlockEnd(fixture, k + 1)
                    /\ k > 0 => frame.data_entry.offset = fixture.blocks[k].offset
                    /\ k = 0 => ~Bound(frame.data_entry)

\* The block this step decoded is the next one of the file.
NextBlockOfFile ==
    \E k \in 1..Len(fixture.blocks) :
        /\ frame.pos = BlockEnd(fixture, k - 1)
        /\ frame'.pos = BlockEnd(fixture, k)
        /\ frame'.data_entry.offset = fixture.blocks[k].offset
        /\ frame'.data_entry.nDeleted = fixture.blocks[k].nDeleted
        /\ frame'.data_entry.data = fixture.blocks[k].data

\* A block with nAdded > 0 and an offset inside the text (or at its end).
InsertStep ==
    /\ BlockStep
    /\ frame'.data_entry.nAdded > 0
    /\ frame'.data_entry.offset <= Len(frame.text)

\* C6 (what the claim is about): characters were inserted in the middle of
\* the text.
C6_Witness ==
    /\ frame.pc = "loop"
    /\ Bound(frame.data_entry)
    /\ frame.data_entry.nAdded > 0
    /\ frame.data_entry.offset > 0
    /\ frame.data_entry.offset + frame.data_entry.nAdded < Len(frame.text)

\* C6: blocks are applied in file order, and a block with nAdded > 0 and
\* offset <= len(text) turns the text B into
\* B[0..offset) ++ data ++ B[offset..end), nAdded longer than B;
\* "hello" at 0 then " world" at 5 gives "hello world".
C6_InsertInFileOrder ==
    /\ [][ InsertStep =>
              LET e == frame'.data_entry
                  B == frame.text
              IN /\ NextBlockOfFile
                 /\ frame'.text = Take(B, e.offset) \o e.data \o Drop(B, e.offset)
                 /\ Len(frame'.text) = Len(B) + e.nAdded
         ]_vars
    /\ [](( /\ frame.pc = "join"
            /\ fixture.blocks = <<InsertBlock(0, Hello), InsertBlock(5, World)>>
            /\ fixture.cut = 0 )
          => frame.text = Hello \o World)

\* A block with nAdded = 0 and nDeleted > 0.
DeleteStep ==
    /\ BlockStep
    /\ frame'.data_entry.nAdded = 0
    /\ frame'.data_entry.nDeleted > 0

DeleteInBounds ==
    frame'.data_entry.offset + frame'.data_entry.nDeleted <= Len(frame.text)

\* C7 (what the claim is about): "cb" was deleted from "acb" with the
\* recovery of deleted content enabled.
C7_Witness ==
    /\ frame.pc = "loop"
    /\ include_deleted_content
    /\ Bound(frame.data_entry)
    /\ frame.data_entry.nAdded = 0
    /\ frame.data_entry.nDeleted = 2
    /\ frame.deleted_content = <<99, 98>>
    /\ frame.text = <<97>>

\* C7: a delete block whose range lies in the text removes exactly
\* text[offset, offset + nDeleted); with the flag set that range, as it was
\* before the removal, is appended to the deleted content, without the flag
\* the deleted content stays empty.
C7_DeleteInBounds ==
    [][ (DeleteStep /\ DeleteInBounds) =>
            LET e == frame'.data_entry
                B == frame.text
            IN /\ frame'.text = Take(B, e.offset) \o Drop(B, e.offset + e.nDeleted)
               /\ IF include_deleted_content
                  THEN frame'.deleted_content =
                           frame.deleted_content
                           \o SubSeq(B, e.offset + 1, e.offset + e.nDeleted)
                  ELSE frame'.deleted_content = <<>> /\ frame.deleted_content = <<>>
      ]_vars

\* The delete of this step is clamped to the text: everything from offset
\* (or from the end of the text, when offset is past it) is removed, and
\* with the flag set exactly those characters are captured.
DeleteClamped ==
    LET e == frame'.data_entry
        B == frame.text
        from == Min(e.offset, Len(B))
    IN /\ frame'.text = Take(B, from)
       /\ frame'.deleted_content =
              IF include_deleted_content
              THEN frame.deleted_content \o Drop(B, from)
              ELSE frame.deleted_content
       /\ frame'.pc = "loop"
       /\ frame'.exc = "None"

\* C8 as claimed: a delete range that leaves the text is clamped, the
\* decode goes on, and a warning is emitted.
C8_ClampAndWarn ==
    [][ (DeleteStep /\ ~DeleteInBounds) =>
            (DeleteClamped /\ Len(frame'.log) > Len(frame.log)) ]_vars

\* C8 (what the claim is about): a delete captured fewer characters than
\* its nDeleted.
C8_Witness ==
    /\ frame.pc = "loop"
    /\ include_deleted_content
    /\ Bound(frame.data_entry)
    /\ frame.data_entry.nAdded = 0
    /\ frame.data_entry.nDeleted > Len(frame.deleted_content)

\* C8, amended: a delete range that leaves the text is clamped to it (only
\* the characters inside the text are removed and captured), the decode
\* does not fail and goes on with the next block, and no warning is emitted.
C8_ClampSilently ==
    [][ (DeleteStep /\ ~DeleteInBounds) =>
            (DeleteClamped /\ frame'.log = frame.log) ]_vars

\* C9 (what the claim is about): a multi-block file decoded with the flag
\* set, with deleted content captured.
C9_Witness ==
    /\ frame.pc = "done"
    /\ include_deleted_content
    /\ fixture.fileSize = 0
    /\ frame.deleted_content # <<>>
    /\ frame.text # DeletedContentDelimiter \o frame.deleted_content

\* C9: for a multi-block file the output with the flag set is the output
\* without the flag, then the delimiter, then the captured deleted content;
\* the text before the delimiter is the same with and without the flag, and
\* without the flag nothing is captured or appended.
C9_DeletedContentAppended ==
    (frame.pc \in {"join", "done"} /\ Bound(frame.mdeh)) =>
        LET off == Process(file, FALSE)
        IN /\ off.pc = "done"
           /\ off.deleted_content = <<>>
           /\ frame.pc = "join" => frame.text = off.result.content
           /\ frame.pc = "done" =>
                 frame.result.content =
                     IF include_deleted_content
                     THEN off.result.content \o DeletedContentDelimiter
                          \o frame.deleted_content
                     ELSE off.result.content
           /\ ~include_deleted_content => frame.deleted_content = <<>>

\* C10: once HbkFilesystem.__init__ has returned the instance has its hbk
\* archive handle, so that _get_node never runs without one.
C10_HandleAssigned ==
    /\ fs.pc \in {"done", "got"} => fs.hbk.set
    /\ fs.pc = "got" => fs.exc # "AttributeError"

=============================================================================
